---- MODULE Spec2Model ----
(***************************************************************************)
(* The job lifecycle of app/services/downloader.py: one Job of the         *)
(* JobManager store, the runner thread executing run_job for it, and the   *)
(* request thread calling cancel_job, interleaved statement by statement   *)
(* wherever the two threads share a field (status, _cancel_event).         *)
(* The extractor (yt_dlp) is the environment: every call to it returns one *)
(* of the results its interface allows, chosen nondeterministically.       *)
(***************************************************************************)
EXTENDS Integers, Sequences, FiniteSets, TLC

(* ---------------------------------------------------------------- bounds *)
MaxEntries == 2     \* longest "entries" list discovery returns
MaxHooks == 2       \* progress callbacks during the downloads of one entry
MaxCancels == 2     \* cancel_job calls of the request thread
MaxCreates == 3     \* create_job calls over the store's lifetime
MaxCreators == 2    \* request threads that may be inside create_job at once
MaxCap == 2         \* largest max_videos a request carries

(* ------------------------------------------------------ program constants *)
max_retries == 3
retry_delay == 5
NumYouTubeFallbacks == 3

None == <<>>
Some(v) == <<v>>

(* if x: on an Optional[int] *)
Truthy(opt) == opt # None /\ opt[1] # 0

Min(a, b) == IF a <= b THEN a ELSE b
Max(a, b) == IF a >= b THEN a ELSE b

VARIABLES
  created,        \* the job is in JobManager._jobs
  max_videos,     \* Job.max_videos: None or Some(int)
  platform,       \* what the substring tests on profile_url.lower() give
  status, progress, total, downloaded, failed, message,   \* Job runtime fields
  cancel_event,   \* Job._cancel_event
  pc,             \* the runner thread's position in run_job
  info, entries, idx, attempt, fb,   \* run_job's locals
  hooks,          \* progress callbacks so far in the downloads of the entry in progress
  fin,            \* how many of them reported 'finished'
  cpc,            \* the request thread's position in cancel_job
  ncancel,        \* cancel_job calls made so far
  cret,           \* what the last cancel_job call that returned gave
  (* history, read by the properties only *)
  tried,          \* extract_info calls of the discovery phase in progress
  discFailed,     \* the discovery branch (line 319) wrote Failed
  visited,        \* discovery positions of the entries the loop took up
  allOkFirst,     \* every entry so far had a URL, and its first ydl.download
                  \* call reported 'finished' and returned
  foundPos,       \* discovery positions of the items the accepted result holds
  foundAllUrl,    \* every item of the accepted result has a resolvable URL
  waits,          \* the backoff sleeps of the entry being processed
  lastOutcome,    \* how the last ydl.download call of that entry ended
  liveCancel,     \* a cancel_job call set the signal while Queued or Running
  sigIdx,         \* idx, and downloaded + failed, when the signal was first set
                  \* on a Running job
  jobs,           \* JobManager._jobs: id -> reference of the stored Job object
  heap,           \* the Job objects constructed so far, by reference
  issued,         \* the values uuid.uuid4() has returned so far
  ncreate,        \* create_job calls begun
  c_pc,           \* per request thread: its position in create_job
  c_job,          \* per request thread: its local "job" (0: none)
  got,            \* what the last get_job call returned (0: None)
  stale           \* a field of the job was written after updated_at last was

jobFields == <<status, progress, total, downloaded, failed, message, stale>>
request == <<created, max_videos, platform>>
locals == <<info, entries, idx, attempt, fb, hooks, fin>>
canceller == <<cpc, ncancel, cret>>
disc == <<tried, discFailed, foundPos, foundAllUrl>>
sig == <<liveCancel, sigIdx>>
history == <<disc, sig, visited, allOkFirst, waits, lastOutcome>>
jobVars == <<request, jobFields, cancel_event, pc, locals, canceller, history>>
store == <<jobs, heap, issued, ncreate, c_pc, c_job, got>>
vars == <<jobVars, store>>

(* line 60: the values uuid4 draws from; the request threads of the server *)
Ids == 1..MaxCreates
Creators == 1..MaxCreators

(* ------------------------------------------------------------ the values *)
Msg(t, a, b) == [tag |-> t, a |-> a, b |-> b]
NoMsg == Msg("", 0, 0)

(* progress is a float; idx / total is kept as the fraction it is *)
Frac(n, d) == <<n, d>>
FracEq(p, q) == p[1] * q[2] = q[1] * p[2]
FracLe(p, q) == p[1] * q[2] <= q[1] * p[2]
Zero == Frac(0, 1)
One == Frac(1, 1)

(* What extract_info(url, download=False) returns: None, a single video, or a
   playlist whose "entries" list holds item descriptors and empty slots. *)
NoInfo == [kind |-> "none", url |-> FALSE, ents |-> <<>>]
EntryKinds == {"none", "url", "nourl"}
SeqsUpTo(S, n) == UNION {[1..k -> S] : k \in 0..n}
Infos ==
  {[kind |-> "single", url |-> u, ents |-> <<>>] : u \in BOOLEAN}
  \cup {[kind |-> "list", url |-> FALSE, ents |-> e] : e \in SeqsUpTo(EntryKinds, MaxEntries)}

IsYouTube == platform = "youtube"
NumFallbacks == IF IsYouTube THEN NumYouTubeFallbacks ELSE 1

(* lines 333-339 *)
Indexed(ents) == [i \in 1..Len(ents) |-> [pos |-> i, url |-> ents[i] = "url", empty |-> ents[i] = "none"]]
Normalize(i) ==
  IF i.kind = "list"
  THEN SelectSeq(Indexed(i.ents), LAMBDA e : ~e.empty)
  ELSE <<[pos |-> 1, url |-> i.url, empty |-> FALSE]>>

(* entries[-m:] instead of entries[:m] *)
SliceLast(s, m) ==
  IF m >= 0 THEN SubSeq(s, Len(s) - Min(Len(s), m) + 1, Len(s))
  ELSE SubSeq(s, 1, Max(0, Len(s) + m))

(* entries[:m] *)
Slice(s, m) ==
  IF m >= 0 THEN SubSeq(s, 1, Min(Len(s), m))
  ELSE SubSeq(s, 1, Max(0, Len(s) + m))

(* lines 341-342 *)
Truncate(s, mv) == IF Truthy(mv) THEN Slice(s, mv[1]) ELSE s

(* ----------------------------------------------------------------- Init *)
Init ==
  /\ created = FALSE
  /\ max_videos = None
  /\ platform = "other"
  /\ status = "queued"
  /\ progress = Zero
  /\ total = None
  /\ downloaded = 0
  /\ failed = 0
  /\ message = NoMsg
  /\ cancel_event = FALSE
  /\ pc = "idle"
  /\ info = NoInfo
  /\ entries = <<>>
  /\ idx = 0
  /\ attempt = 0
  /\ fb = 0
  /\ hooks = 0
  /\ fin = 0
  /\ cpc = "idle"
  /\ ncancel = 0
  /\ cret = "none"
  /\ tried = 0
  /\ discFailed = FALSE
  /\ visited = <<>>
  /\ allOkFirst = TRUE
  /\ foundPos = <<>>
  /\ foundAllUrl = TRUE
  /\ waits = <<>>
  /\ lastOutcome = "none"
  /\ liveCancel = FALSE
  /\ sigIdx = None
  /\ jobs = <<>>
  /\ heap = <<>>
  /\ issued = {}
  /\ ncreate = 0
  /\ c_pc = [t \in Creators |-> "idle"]
  /\ c_job = [t \in Creators |-> 0]
  /\ got = 0
  /\ stale = FALSE


(* ------------------------------------------------------------- the store *)
(* ids taken from the size of the store instead of uuid4 *)
NewIdsByCount == {Min(Cardinality(DOMAIN jobs) + 1, MaxCreates)}

(* line 60: uuid.uuid4() gives a value it has not given before *)
NewIds == Ids \ issued

(* lines 16-31: a Job as the dataclass constructs it *)
NewJob(id) ==
  [id |-> id, status |-> "queued", progress |-> Zero, total |-> None,
   downloaded |-> 0, failed |-> 0, cancel_event |-> FALSE]

(* lines 60-62: uuid4, then output_root_path.mkdir raises and the call ends *)
CreateMkdirRaises(t, id) ==
  /\ c_pc[t] = "idle"
  /\ ncreate < MaxCreates
  /\ id \in NewIds
  /\ ncreate' = ncreate + 1
  /\ issued' = issued \cup {id}
  /\ UNCHANGED <<jobs, heap, c_pc, c_job, got, jobVars>>

(* lines 60-69: uuid4, mkdir, Job(...) *)
CreateConstruct(t, id) ==
  /\ c_pc[t] = "idle"
  /\ ncreate < MaxCreates
  /\ id \in NewIds
  /\ ncreate' = ncreate + 1
  /\ issued' = issued \cup {id}
  /\ heap' = Append(heap, NewJob(id))
  /\ c_job' = [c_job EXCEPT ![t] = Len(heap) + 1]
  /\ c_pc' = [c_pc EXCEPT ![t] = "l70"]
  /\ UNCHANGED <<jobs, got, jobVars>>

(* lines 70-73: self._jobs[job_id] = job under the lock; return job *)
CreateInsert(t) ==
  /\ c_pc[t] = "l70"
  /\ jobs' = [i \in DOMAIN jobs \cup {heap[c_job[t]].id} |->
               IF i = heap[c_job[t]].id THEN c_job[t] ELSE jobs[i]]
  /\ c_pc' = [c_pc EXCEPT ![t] = "idle"]
  /\ c_job' = [c_job EXCEPT ![t] = 0]
  /\ UNCHANGED <<heap, issued, ncreate, got, jobVars>>

(* lines 75-77: self._jobs.get(job_id) under the lock *)
GetJob(id) ==
  /\ got' = IF id \in DOMAIN jobs THEN jobs[id] ELSE 0
  /\ got' # got
  /\ UNCHANGED <<jobs, heap, issued, ncreate, c_pc, c_job, jobVars>>

(* lines 79-87: cancel_job on the store: the signal and the status of the
   object get_job returned; an id that is not stored changes nothing *)
StoreCancelJob(id) ==
  /\ id \in DOMAIN jobs
  /\ heap[jobs[id]].status # "cancelled"
  /\ heap' = [heap EXCEPT ![jobs[id]].cancel_event = TRUE,
                          ![jobs[id]].status = "cancelled"]
  /\ UNCHANGED <<jobs, issued, ncreate, c_pc, c_job, got, jobVars>>

(* ------------------------------------------------------------ create_job *)
CapValues == {None} \cup {Some(m) : m \in (0 - 1)..MaxCap}
Platforms == {"youtube", "other"}

(* JobManager.create_job: a Job with the dataclass defaults enters the store.
   main.py hands it any integer the form field parses to, or None. *)
CreateJob(mv, p) ==
  /\ ~created
  /\ created' = TRUE
  /\ max_videos' = mv
  /\ platform' = p
  /\ status' = "queued"
  /\ progress' = Zero
  /\ total' = None
  /\ downloaded' = 0
  /\ failed' = 0
  /\ message' = NoMsg
  /\ cancel_event' = FALSE
  /\ stale' = FALSE
  /\ UNCHANGED <<store, pc, locals, canceller, history>>

(* a lookup that takes every id for a stored one *)
JobAbsentNever == FALSE

(* line 81, line 91: get_job(job_id) gave None *)
JobAbsent == ~created

(* ------------------------------------------------------------ cancel_job *)
(* lines 80-83: the lookup, and the signal *)
CancelJobSet ==
  /\ cpc = "idle"
  /\ ncancel < MaxCancels
  /\ ncancel' = ncancel + 1
  /\ IF JobAbsent
     THEN /\ cret' = "false"
          /\ UNCHANGED <<cpc, cancel_event, liveCancel, sigIdx>>
     ELSE /\ cancel_event' = TRUE
          /\ cpc' = "l84"
          /\ cret' = cret
          /\ liveCancel' = (liveCancel \/ status \in {"queued", "running"})
          /\ sigIdx' = IF sigIdx = None /\ status = "running"
                       THEN <<idx, downloaded + failed>> ELSE sigIdx
  /\ UNCHANGED <<store, request, jobFields, pc, locals, disc, visited, allOkFirst, waits, lastOutcome>>

(* lines 84-87: the status write, unconditional *)
CancelJobWrite ==
  /\ cpc = "l84"
  /\ status' = "cancelled"
  /\ cret' = "true"
  /\ cpc' = "idle"
  /\ stale' = FALSE
  /\ UNCHANGED <<store, request, progress, total, downloaded, failed, message, cancel_event,
                 pc, locals, ncancel, history>>

(* --------------------------------------------------------------- run_job *)
(* a guard that forgets the cancelled job *)
GuardReturnsAbsentOnly == JobAbsent

(* line 91 *)
GuardReturns == JobAbsent \/ status = "cancelled"

(* lines 90-92; at "l92" run_job has returned from its guard *)
RunGuard ==
  /\ pc = "idle"
  /\ pc' = IF GuardReturns THEN "l92" ELSE "l93"
  /\ UNCHANGED <<store, request, jobFields, cancel_event, locals, canceller, history>>

(* lines 93-94 *)
RunSetRunning ==
  /\ pc = "l93"
  /\ status' = "running"
  /\ pc' = "l98"
  /\ stale' = FALSE
  /\ UNCHANGED <<store, request, progress, total, downloaded, failed, message, cancel_event,
                 locals, canceller, history>>

(* lines 97-225: mkdir stands outside the try and its error leaves run_job;
   an error of the YoutubeDL constructor is caught at line 403 *)
SetupOutcomes == {"ok", "mkdir_raises", "ydl_raises"}
RunSetup(r) ==
  /\ pc = "l98"
  /\ pc' = CASE r = "ok" -> "l230"
             [] r = "mkdir_raises" -> "raised"
             [] r = "ydl_raises" -> "l404"
  /\ UNCHANGED <<store, request, jobFields, cancel_event, locals, canceller, history>>

(* what one extract_info call does: raises, or returns None or an info dict *)
ExtractResults ==
  {[raised |-> TRUE, val |-> NoInfo]}
  \cup {[raised |-> FALSE, val |-> v] : v \in Infos \cup {NoInfo}}

(* lines 229-236, 298: the primary profile; only an exception leads to the fallbacks *)
ExtractPrimary(r) ==
  /\ pc = "l230"
  /\ tried' = tried + 1
  /\ info' = r.val
  /\ IF r.raised
     THEN IF IsYouTube
          THEN pc' = "l287" /\ fb' = 1
          ELSE pc' = "l314" /\ fb' = fb
     ELSE pc' = "l319" /\ fb' = fb
  /\ UNCHANGED <<store, request, jobFields, cancel_event, entries, idx, attempt, hooks, fin, canceller,
                 discFailed, visited, allOkFirst, foundPos, foundAllUrl, waits, lastOutcome, liveCancel, sigIdx>>

(* lines 281-288 *)
FallbackNotice ==
  /\ pc = "l287"
  /\ message' = Msg("fallback", fb, NumYouTubeFallbacks)
  /\ pc' = "l291"
  /\ stale' = FALSE
  /\ UNCHANGED <<store, request, status, progress, total, downloaded, failed, cancel_event,
                 locals, canceller, history>>

(* lines 290-297: break on a truthy info, otherwise the next fallback *)
FallbackExtract(r) ==
  /\ pc = "l291"
  /\ tried' = tried + 1
  /\ info' = IF r.raised THEN info ELSE r.val
  /\ IF ~r.raised /\ r.val # NoInfo
     THEN pc' = "l319" /\ fb' = fb
     ELSE IF fb < NumYouTubeFallbacks
          THEN pc' = "l287" /\ fb' = fb + 1
          ELSE pc' = "l319" /\ fb' = fb
  /\ UNCHANGED <<store, request, jobFields, cancel_event, entries, idx, attempt, hooks, fin, canceller,
                 discFailed, visited, allOkFirst, foundPos, foundAllUrl, waits, lastOutcome, liveCancel, sigIdx>>

(* lines 299-317 *)
SimpleFallback(r) ==
  /\ pc = "l314"
  /\ tried' = tried + 1
  /\ info' = r.val
  /\ pc' = "l319"
  /\ UNCHANGED <<store, request, jobFields, cancel_event, entries, idx, attempt, fb, hooks, fin, canceller,
                 discFailed, visited, allOkFirst, foundPos, foundAllUrl, waits, lastOutcome, liveCancel, sigIdx>>

(* lines 319-331 *)
DiscoveryFailed ==
  /\ pc = "l319"
  /\ info = NoInfo
  /\ status' = "failed"
  /\ message' = IF IsYouTube THEN Msg("youtube_update", 0, 0) ELSE Msg("no_access", 0, 0)
  /\ discFailed' = TRUE
  /\ pc' = "done"
  /\ stale' = FALSE
  /\ UNCHANGED <<store, request, progress, total, downloaded, failed, cancel_event, locals, canceller,
                 tried, visited, allOkFirst, foundPos, foundAllUrl, waits, lastOutcome, liveCancel, sigIdx>>

(* lines 333-346. info and the fallback counter are not read after line 339:
   they go back to their initial values here. *)
DiscoveryDone ==
  /\ pc = "l319"
  /\ info # NoInfo
  /\ entries' = Truncate(Normalize(info), max_videos)
  /\ total' = Some(Len(entries'))
  /\ progress' = Zero
  /\ idx' = 0
  /\ pc' = "l348"
  /\ info' = NoInfo
  /\ fb' = 0
  /\ tried' = 0
  /\ foundPos' = [k \in 1..Len(Normalize(info)) |-> Normalize(info)[k].pos]
  /\ foundAllUrl' = \A k \in 1..Len(Normalize(info)) : Normalize(info)[k].url
  /\ stale' = FALSE
  /\ UNCHANGED <<store, request, status, downloaded, failed, message, cancel_event,
                 attempt, hooks, fin, canceller,
                 discFailed, visited, allOkFirst, waits, lastOutcome, liveCancel, sigIdx>>


(* a checkpoint that never sees the signal *)
CancelSeenNever == FALSE

(* line 349, line 103: _cancel_event.is_set() *)
CancelSeen == cancel_event

(* line 348: the for loop has run out of entries *)
LoopDone ==
  /\ pc = "l348"
  /\ idx = Len(entries)
  /\ pc' = "l399"
  /\ UNCHANGED <<store, request, jobFields, cancel_event, locals, canceller, history>>

(* lines 348-350: the checkpoint raises DownloadError("Cancelled") *)
LoopCancelled ==
  /\ pc = "l348"
  /\ idx < Len(entries)
  /\ CancelSeen
  /\ idx' = idx + 1
  /\ pc' = "l404"
  /\ UNCHANGED <<store, request, jobFields, cancel_event, info, entries, attempt, fb, hooks, fin,
                 canceller, history>>

(* lines 351-354: no webpage_url and no url; continue skips lines 393-397 *)
ItemNoUrl ==
  /\ pc = "l348"
  /\ idx < Len(entries)
  /\ ~CancelSeen
  /\ ~entries[idx + 1].url
  /\ idx' = idx + 1
  /\ failed' = failed + 1
  /\ visited' = Append(visited, entries[idx + 1].pos)
  /\ allOkFirst' = FALSE
  /\ pc' = "l348"
  /\ stale' = TRUE
  /\ UNCHANGED <<store, request, status, progress, total, downloaded, message, cancel_event,
                 info, entries, attempt, fb, hooks, fin, canceller,
                 disc, sig, waits, lastOutcome>>

(* lines 351-360 *)
ItemStart ==
  /\ pc = "l348"
  /\ idx < Len(entries)
  /\ ~CancelSeen
  /\ entries[idx + 1].url
  /\ idx' = idx + 1
  /\ attempt' = 0
  /\ visited' = Append(visited, entries[idx + 1].pos)
  /\ waits' = <<>>
  /\ pc' = "l362"
  /\ UNCHANGED <<store, request, jobFields, cancel_event, info, entries, fb, hooks, fin, canceller,
                 tried, discFailed, allOkFirst, foundPos, foundAllUrl, liveCancel, sigIdx,
                 lastOutcome>>

(* line 364 *)
WaitTime(a) == retry_delay * (3 ^ a)

(* lines 362-370: the backoff sleep of a retry, then ydl.download is entered *)
AttemptStart ==
  /\ pc = "l362"
  /\ IF attempt > 0
     THEN /\ message' = Msg("rate_limit_wait", WaitTime(attempt), attempt + 1)
          /\ waits' = Append(waits, WaitTime(attempt))
     ELSE UNCHANGED <<message, waits>>
  /\ hooks' = hooks
  /\ fin' = 0
  /\ lastOutcome' = "none"
  /\ pc' = "l370"
  /\ stale' = (IF attempt > 0 THEN FALSE ELSE stale)
  /\ UNCHANGED <<store, request, status, progress, total, downloaded, failed, cancel_event,
                 info, entries, idx, attempt, fb, canceller,
                 tried, discFailed, visited, allOkFirst, foundPos, foundAllUrl, liveCancel, sigIdx>>

(* line 103: progress_hook is called and finds the signal clear *)
HookEnter ==
  /\ pc = "l370"
  /\ hooks < MaxHooks
  /\ ~CancelSeen
  /\ hooks' = hooks + 1
  /\ pc' = "l105"
  /\ UNCHANGED <<store, request, jobFields, cancel_event,
                 info, entries, idx, attempt, fb, fin, canceller, history>>

(* lines 105-112: the body of progress_hook, behind the test of line 103 *)
HookStates == {"downloading", "finished"}
ProgressHook(st) ==
  /\ pc = "l105"
  /\ pc' = "l370"
  /\ IF st = "downloading"
     THEN /\ message' = Msg("filename", 0, 0)
          /\ UNCHANGED <<downloaded, fin>>
     ELSE /\ downloaded' = downloaded + 1
          /\ message' = Msg("downloaded_file", 0, 0)
          /\ fin' = fin + 1
  /\ stale' = FALSE
  /\ UNCHANGED <<store, request, status, progress, total, failed, cancel_event,
                 info, entries, idx, attempt, fb, hooks, canceller, history>>

(* lines 103-104: progress_hook raises DownloadError("Job cancelled by user").
   What ydl.download makes of it is the library's: with ignoreerrors it may
   swallow it and return (line 371), or it lets it through to line 373, where
   the text matches no rate-limit word (lines 383-386). *)
HookCancelled(propagates) ==
  /\ pc = "l370"
  /\ hooks < MaxHooks
  /\ CancelSeen
  /\ hooks' = 0
  /\ fin' = 0
  /\ IF propagates
     THEN failed' = failed + 1
     ELSE UNCHANGED failed
  /\ allOkFirst' = FALSE
  /\ lastOutcome' = "hook_cancel"
  /\ pc' = "l393"
  /\ stale' = (IF propagates THEN TRUE ELSE stale)
  /\ UNCHANGED <<store, request, status, progress, total, downloaded, message, cancel_event,
                 info, entries, idx, attempt, fb, canceller,
                 disc, sig, visited, waits>>

(* lines 370-371: ydl.download returns; break *)
DownloadReturns ==
  /\ pc = "l370"
  /\ allOkFirst' = (allOkFirst /\ attempt = 0 /\ fin >= 1)
  /\ hooks' = 0
  /\ fin' = 0
  /\ lastOutcome' = "ok"
  /\ pc' = "l393"
  /\ UNCHANGED <<store, request, jobFields, cancel_event,
                 info, entries, idx, attempt, fb, canceller,
                 disc, sig, visited, waits>>

(* a rate-limit handler that counts the entry as failed on every attempt *)
DownloadRateLimitedCountsEach ==
  /\ pc = "l370"
  /\ allOkFirst' = FALSE
  /\ hooks' = (IF attempt < max_retries - 1 THEN hooks ELSE 0)
  /\ fin' = 0
  /\ lastOutcome' = "rate_limit"
  /\ failed' = failed + 1
  /\ IF attempt < max_retries - 1
     THEN /\ attempt' = attempt + 1
          /\ pc' = "l362"
          /\ UNCHANGED message
     ELSE /\ message' = Msg("rate_limit_blocked", max_retries, 0)
          /\ pc' = "l393"
          /\ UNCHANGED attempt
  /\ stale' = TRUE
  /\ UNCHANGED <<store, request, status, progress, total, downloaded, cancel_event,
                 info, entries, idx, fb, canceller,
                 disc, sig, visited, waits>>

(* lines 373-382: a DownloadError whose text names a rate limit *)
DownloadRateLimited ==
  /\ pc = "l370"
  /\ allOkFirst' = FALSE
  /\ hooks' = (IF attempt < max_retries - 1 THEN hooks ELSE 0)
  /\ fin' = 0
  /\ lastOutcome' = "rate_limit"
  /\ IF attempt < max_retries - 1
     THEN /\ attempt' = attempt + 1
          /\ pc' = "l362"
          /\ UNCHANGED <<failed, message>>
     ELSE /\ failed' = failed + 1
          /\ message' = Msg("rate_limit_blocked", max_retries, 0)
          /\ pc' = "l393"
          /\ UNCHANGED attempt
  /\ stale' = (IF attempt < max_retries - 1 THEN stale ELSE TRUE)
  /\ UNCHANGED <<store, request, status, progress, total, downloaded, cancel_event,
                 info, entries, idx, fb, canceller,
                 disc, sig, visited, waits>>

(* a DownloadError that is let through to the handler of line 403 *)
DownloadFailsAborts ==
  /\ pc = "l370"
  /\ allOkFirst' = FALSE
  /\ hooks' = 0
  /\ fin' = 0
  /\ lastOutcome' = "error"
  /\ pc' = "l404"
  /\ UNCHANGED <<store, request, jobFields, cancel_event,
                 info, entries, idx, attempt, fb, canceller, disc, sig, visited, waits>>

(* a handler that retries every DownloadError *)
DownloadFailsRetries ==
  /\ pc = "l370"
  /\ allOkFirst' = FALSE
  /\ hooks' = (IF attempt < max_retries - 1 THEN hooks ELSE 0)
  /\ fin' = 0
  /\ lastOutcome' = "error"
  /\ IF attempt < max_retries - 1
     THEN /\ attempt' = attempt + 1
          /\ pc' = "l362"
          /\ UNCHANGED failed
     ELSE /\ failed' = failed + 1
          /\ pc' = "l393"
          /\ UNCHANGED attempt
  /\ stale' = (IF attempt < max_retries - 1 THEN stale ELSE TRUE)
  /\ UNCHANGED <<store, request, status, progress, total, downloaded, message, cancel_event,
                 info, entries, idx, fb, canceller, disc, sig, visited, waits>>

(* lines 383-386: any other DownloadError *)
DownloadFails ==
  /\ pc = "l370"
  /\ failed' = failed + 1
  /\ allOkFirst' = FALSE
  /\ hooks' = 0
  /\ fin' = 0
  /\ lastOutcome' = "error"
  /\ pc' = "l393"
  /\ stale' = TRUE
  /\ UNCHANGED <<store, request, status, progress, total, downloaded, message, cancel_event,
                 info, entries, idx, attempt, fb, canceller, disc, sig, visited, waits>>

(* lines 387-390: any other exception *)
DownloadCrashes ==
  /\ pc = "l370"
  /\ failed' = failed + 1
  /\ allOkFirst' = FALSE
  /\ hooks' = 0
  /\ fin' = 0
  /\ lastOutcome' = "exception"
  /\ pc' = "l393"
  /\ stale' = TRUE
  /\ UNCHANGED <<store, request, status, progress, total, downloaded, message, cancel_event,
                 info, entries, idx, attempt, fb, canceller, disc, sig, visited, waits>>

(* line 396 *)
ProgressAfter(i, t) == IF Truthy(t) THEN Frac(i, t[1]) ELSE Zero

(* lines 393-397; attempt and the record of the entry's retries are not read
   after the retry loop *)
ItemEnd ==
  /\ pc = "l393"
  /\ progress' = ProgressAfter(idx, total)
  /\ attempt' = 0
  /\ waits' = <<>>
  /\ lastOutcome' = "none"
  /\ pc' = "l348"
  /\ stale' = FALSE
  /\ UNCHANGED <<store, request, status, total, downloaded, failed, message, cancel_event,
                 info, entries, idx, fb, hooks, fin, canceller, disc, sig, visited, allOkFirst>>

(* line 399 and line 404: the guard of the runner's terminal writes *)
NotCancelled == status # "cancelled"

(* line 399 *)
FinishCheck ==
  /\ pc = "l399"
  /\ pc' = IF NotCancelled THEN "l400" ELSE "done"
  /\ UNCHANGED <<store, request, jobFields, cancel_event, locals, canceller, history>>

(* line 400 *)
FinishWrite ==
  /\ pc = "l400"
  /\ status' = "completed"
  /\ pc' = "l401"
  /\ stale' = TRUE
  /\ UNCHANGED <<store, request, progress, total, downloaded, failed, message, cancel_event,
                 locals, canceller, history>>

(* lines 401-402 *)
FinishMessage ==
  /\ pc = "l401"
  /\ message' = Msg("done", downloaded, failed)
  /\ pc' = "done"
  /\ stale' = FALSE
  /\ UNCHANGED <<store, request, status, progress, total, downloaded, failed, cancel_event,
                 locals, canceller, history>>

(* lines 403-404 *)
ExceptCheck ==
  /\ pc = "l404"
  /\ pc' = IF NotCancelled THEN "l405" ELSE "done"
  /\ UNCHANGED <<store, request, jobFields, cancel_event, locals, canceller, history>>

(* lines 405-408 *)
ExceptWrite ==
  /\ pc = "l405"
  /\ status' = "failed"
  /\ message' = Msg("exception", 0, 0)
  /\ pc' = "done"
  /\ stale' = FALSE
  /\ UNCHANGED <<store, request, progress, total, downloaded, failed, cancel_event,
                 locals, canceller, history>>

(* ------------------------------------------------------- specification *)
Next ==
  \/ \E mv \in CapValues, p \in Platforms : CreateJob(mv, p)
  \/ CancelJobSet
  \/ CancelJobWrite
  \/ RunGuard
  \/ RunSetRunning
  \/ \E r \in SetupOutcomes : RunSetup(r)
  \/ \E r \in ExtractResults : ExtractPrimary(r)
  \/ FallbackNotice
  \/ \E r \in ExtractResults : FallbackExtract(r)
  \/ \E r \in ExtractResults : SimpleFallback(r)
  \/ DiscoveryFailed
  \/ DiscoveryDone
  \/ LoopDone
  \/ LoopCancelled
  \/ ItemNoUrl
  \/ ItemStart
  \/ AttemptStart
  \/ HookEnter
  \/ \E st \in HookStates : ProgressHook(st)
  \/ \E b \in BOOLEAN : HookCancelled(b)
  \/ DownloadReturns
  \/ DownloadRateLimited
  \/ DownloadFails
  \/ DownloadCrashes
  \/ ItemEnd
  \/ FinishCheck
  \/ FinishWrite
  \/ FinishMessage
  \/ ExceptCheck
  \/ ExceptWrite

Spec == Init /\ [][Next]_vars

(* the store under concurrent requests *)
NextStore ==
  \/ \E t \in Creators, id \in Ids : CreateMkdirRaises(t, id)
  \/ \E t \in Creators, id \in Ids : CreateConstruct(t, id)
  \/ \E t \in Creators : CreateInsert(t)
  \/ \E id \in Ids : GetJob(id)
  \/ \E id \in Ids : StoreCancelJob(id)

SpecStore == Init /\ [][NextStore]_vars


(* =========================================================== properties *)
Terminal == {"completed", "cancelled", "failed"}
Returned == pc \in {"l92", "done"}
NFound == Len(foundPos)

(* C1: the status only moves forward: once it is no longer Queued it is never
   Queued again, and once it is Completed, Cancelled or Failed it is never
   Running again. *)
C1_StatusForward ==
  [][/\ (status # "queued" => status' # "queued")
     /\ (status \in Terminal => status' # "running")]_vars

(* C2: a status of Completed or Failed is kept by every later step, cancel_job
   calls included. *)
C2_TerminalKept ==
  [][(status \in {"completed", "failed"}) => (status' = status)]_vars

(* C3: when a cancel_job call has set the signal of a Queued or Running job
   and has returned, the status after run_job has returned is Cancelled. *)
C3_CancelWins ==
  (Returned /\ liveCancel /\ cpc = "idle") => status = "cancelled"

(* C4: once cancel_job has set the signal of a Running job, no step starts a
   download attempt or changes a counter for an item whose index is greater
   than the index of the item in flight when the signal was set. *)
C4_NoItemAfterSignal ==
  [][(/\ sigIdx # None
      /\ \/ pc # "l370" /\ pc' = "l370"
         \/ downloaded' # downloaded
         \/ failed' # failed)
     => (idx' <= sigIdx[1])]_vars

(* C4 witness: the signal was set while item 1 or a later item was in flight,
   entries were left, and run_job has returned without taking them up. *)
C4_Witness ==
  /\ Returned
  /\ sigIdx # None
  /\ sigIdx[1] >= 1
  /\ Len(visited) = sigIdx[1]
  /\ Len(visited) < Len(entries)
  /\ status = "cancelled"

(* C5: once total is set, downloaded + failed <= total. *)
C5_CountersWithinTotal ==
  total # None => downloaded + failed <= total[1]

(* C6: progress is in [0,1], is 0 while total is unknown, and is idx/total
   whenever the runner stands between two items or behind the last one. *)
C6_ProgressTracksItems ==
  /\ FracLe(Zero, progress)
  /\ FracLe(progress, One)
  /\ (total = None => FracEq(progress, Zero))
  /\ (pc \in {"l348", "l399"} /\ idx >= 1 => FracEq(progress, Frac(idx, total[1])))

(* C7: a job that is never cancelled, whose discovery returned n >= 1 items,
   all with a URL, and each of whose n downloads reported 'finished' and
   returned on the first attempt, ends Completed with total = n,
   downloaded = n, failed = 0 and progress = 1. *)
C7_AllSucceed ==
  (/\ Returned
   /\ ncancel = 0
   /\ total # None
   /\ NFound >= 1
   /\ foundAllUrl
   /\ Len(visited) = NFound
   /\ allOkFirst)
  => /\ status = "completed"
     /\ total = Some(NFound)
     /\ downloaded = NFound
     /\ failed = 0
     /\ FracEq(progress, One)

(* C8: with a positive max_videos = m and n items discovered, total is
   min(n, m), the entries taken up are at every moment a prefix of the first
   min(n, m) items in discovery order, and all of them once the loop is through. *)
C8_FirstMinItems ==
  (total # None /\ max_videos # None /\ max_videos[1] > 0)
  => /\ total = Some(Min(NFound, max_videos[1]))
     /\ Len(visited) <= Min(NFound, max_videos[1])
     /\ visited = SubSeq(foundPos, 1, Len(visited))
     /\ (pc = "l399" => Len(visited) = Min(NFound, max_videos[1]))

(* C8 witness: the cap cut the discovery result and the loop is through. *)
C8_Witness ==
  /\ pc = "l399"
  /\ max_videos # None
  /\ max_videos[1] > 0
  /\ max_videos[1] < NFound
  /\ Len(visited) = max_videos[1]

(* C9: when discovery has succeeded and cancel_job is never called, run_job
   returns with status Completed and every one of the total entries visited,
   whatever the outcomes of the single items. *)
C9_ItemFailuresLocal ==
  (Returned /\ ncancel = 0 /\ total # None)
  => /\ status = "completed"
     /\ Len(visited) = total[1]

(* C9 witness: a returned, never cancelled job of two entries, one failed and
   one downloaded. *)
C9_Witness ==
  /\ Returned
  /\ ncancel = 0
  /\ total = Some(2)
  /\ failed = 1
  /\ downloaded = 1
  /\ status = "completed"

(* C10: the discovery phase marks the job Failed only when the primary profile
   and every fallback profile of the platform have been tried. *)
C10_FailedAfterWholeChain ==
  discFailed => tried = 1 + NumFallbacks


(* C11: no execution of run_job ends, by return or by an exception that
   leaves it, with the job still Running. *)
C11_NeverLeftRunning ==
  pc \in {"l92", "done", "raised"} => status # "running"

(* C12: a run_job call that finds no job, or a Cancelled one, returns at its
   guard and changes no field of the job; after that return the runner calls
   no extractor and writes nothing: total, progress, the counters and the
   message stay as they were, and the status changes only by cancel_job. *)
C12_GuardNoOp ==
  [][/\ (pc = "idle" /\ pc' # "idle" /\ (~created \/ status = "cancelled"))
        => (pc' = "l92" /\ UNCHANGED <<store, request, jobFields, cancel_event, tried>>)
     /\ pc = "l92"
        => /\ pc' = "l92"
           /\ UNCHANGED <<progress, total, downloaded, failed, message, tried>>
           /\ (status' # status => status' = "cancelled")]_vars

(* C12 witness: run_job has returned at its guard from a job cancelled while
   Queued. *)
C12_Witness ==
  /\ pc = "l92"
  /\ created
  /\ status = "cancelled"
  /\ total = None
  /\ downloaded = 0
  /\ failed = 0

(* C13: a cancel_job call for an id that is not in the store returns False
   and changes nothing: no job enters the store, and status, signal and the
   other fields stay as they are. *)
C13_CancelAbsent ==
  [][(cpc = "idle" /\ ncancel' # ncancel /\ ~created)
     => (/\ cret' = "false"
         /\ cpc' = "idle"
         /\ UNCHANGED <<store, request, jobFields, cancel_event>>)]_vars

(* C13 witness: a cancel_job call has returned False, the store is empty. *)
C13_Witness ==
  /\ cret = "false"
  /\ ncancel >= 1
  /\ ~created
  /\ ~cancel_event
  /\ cpc = "idle"

(* C16: once the status is Cancelled no step changes it: none of the
   runner's writes (Running at entry, Failed after discovery, Completed after
   the loop, Failed in the outermost handler) replaces Cancelled. *)
C16_CancelledKept ==
  [][(status = "cancelled") => (status' = "cancelled")]_vars

(* C17: an entry whose download attempts all end in a rate-limit error gets
   exactly 3 attempts: a rate-limited attempt before the third leads to a
   retry and leaves failed alone, the third adds exactly 1 to failed, and
   the runner then goes on to the next entry of the loop. *)
C17_RateLimitedItem ==
  [][/\ (pc = "l370" /\ lastOutcome' = "rate_limit" /\ attempt + 1 < 3)
        => (pc' = "l362" /\ attempt' = attempt + 1 /\ failed' = failed /\ idx' = idx)
     /\ (pc = "l370" /\ lastOutcome' = "rate_limit" /\ attempt + 1 >= 3)
        => (/\ attempt + 1 = 3
            /\ Len(waits) = 2
            /\ failed' = failed + 1
            /\ pc' = "l393"
            /\ idx' = idx)
     /\ (pc = "l393" /\ lastOutcome = "rate_limit")
        => (/\ attempt + 1 = 3
            /\ failed' = failed
            /\ pc' \in {"l393", "l348"}
            /\ idx' = idx)]_vars

(* C17 witness: the first of two entries was rate-limited three times, was
   counted once, and the runner has taken up the second entry. *)
C17_Witness ==
  /\ pc = "l362"
  /\ idx = 2
  /\ message = Msg("rate_limit_blocked", 3, 0)
  /\ failed = 1
  /\ downloaded = 0

(* C18: the backoff sleeps of one entry are, in order, 5 s, 15 s and 45 s:
   what the retry loop has slept so far is a prefix of that sequence, and
   nothing is slept before the first attempt. *)
C18_BackoffWaits ==
  /\ Len(waits) <= 3
  /\ \A i \in 1..Len(waits) : waits[i] = <<5, 15, 45>>[i]
  /\ (pc \in {"l362", "l370"} /\ attempt = 0) => waits = <<>>

(* C19: an entry whose first download attempt ends in an error that is not a
   rate limit gets that one attempt only: failed grows by exactly 1, no
   backoff sleep has been or is executed for it, and the runner goes on to
   the next entry. *)
C19_PlainFailure ==
  [][/\ (pc = "l370" /\ attempt = 0 /\ lastOutcome' \in {"error", "exception"})
        => (/\ failed' = failed + 1
            /\ waits = <<>>
            /\ waits' = <<>>
            /\ attempt' = 0
            /\ pc' = "l393"
            /\ idx' = idx)
     /\ (pc = "l393" /\ lastOutcome \in {"error", "exception"} /\ attempt = 0)
        => (/\ failed' = failed
            /\ waits' = <<>>
            /\ pc' \in {"l393", "l348"}
            /\ idx' = idx)]_vars

(* C19 witness: the first of two entries failed on its first attempt with a
   plain error, and the runner has taken up the second entry. *)
C19_Witness ==
  /\ pc = "l362"
  /\ idx = 2
  /\ attempt = 0
  /\ failed = 1
  /\ downloaded = 0
  /\ waits = <<>>
  /\ message = NoMsg
  /\ foundAllUrl
  /\ ~cancel_event

(* C20: a step in which the runner observes the cancel signal, at the top of
   the loop or in the progress callback of a running download, never adds to
   failed. *)
C20_CancelNotCounted ==
  [][/\ (pc = "l348" /\ pc' = "l404") => (failed' = failed)
     /\ (pc = "l370" /\ lastOutcome' = "hook_cancel") => (failed' = failed)]_vars

(* C14: a cancel_job call made after an earlier call for the same job has
   returned success changes nothing and returns success as well: none of its
   steps changes the status, the cancel signal, the counters, total or
   progress, whatever the runner did between the two calls. *)
C14_CancelIdempotent ==
  [][(cret = "true" /\ cpc' # cpc)
     => (/\ UNCHANGED <<status, cancel_event, downloaded, failed, total, progress>>
         /\ (cpc' = "idle" => cret' = "true"))]_vars

(* C15: create_job constructs a Job with the defaults (Queued, progress 0,
   total absent, both counters 0, signal clear) under an id no Job had
   before, and stores it under that id, which no stored job has: the store
   gains exactly that entry, every job stored before keeps its entry and its
   fields, and get_job returns the object stored under the id asked for.
   This holds with several create_job calls in flight at once. *)
C15_CreateFresh ==
  [][/\ \A t \in Creators :
          (c_pc[t] = "idle" /\ c_pc'[t] = "l70")
          => (/\ c_job'[t] = Len(heap) + 1
              /\ Len(heap') = Len(heap) + 1
              /\ \A r \in 1..Len(heap) :
                    heap'[r] = heap[r] /\ heap[r].id # heap'[c_job'[t]].id
              /\ heap'[c_job'[t]].status = "queued"
              /\ heap'[c_job'[t]].progress = Zero
              /\ heap'[c_job'[t]].total = None
              /\ heap'[c_job'[t]].downloaded = 0
              /\ heap'[c_job'[t]].failed = 0
              /\ heap'[c_job'[t]].cancel_event = FALSE
              /\ jobs' = jobs)
     /\ \A t \in Creators :
          (c_pc[t] = "l70" /\ c_pc'[t] = "idle")
          => (/\ heap[c_job[t]].id \notin DOMAIN jobs
              /\ DOMAIN jobs' = DOMAIN jobs \cup {heap[c_job[t]].id}
              /\ jobs'[heap[c_job[t]].id] = c_job[t]
              /\ \A i \in DOMAIN jobs : jobs'[i] = jobs[i]
              /\ heap' = heap)
     /\ (got' # got /\ got' # 0)
        => (\E i \in DOMAIN jobs : jobs[i] = got' /\ heap[got'].id = i)]_vars

(* C15 witness: two create_job calls have returned, both jobs are stored
   under different ids, the first was cancelled since, and get_job has
   returned the second, still as constructed. *)
C15_Witness ==
  /\ Cardinality(DOMAIN jobs) = 2
  /\ Len(heap) = 2
  /\ \A t \in Creators : c_pc[t] = "idle"
  /\ ncreate = 2
  /\ heap[1].status = "cancelled"
  /\ got = 2
  /\ heap[2] = NewJob(heap[2].id)
  /\ \E i \in DOMAIN jobs : jobs[i] = 2

(* C21: when the primary profile gives no result, by raising or by returning
   None, the fallbacks of the platform are tried next, in their order (for
   YouTube 1, 2, 3, for the others the one simple profile); a fallback that
   returns a result ends the chain, and the item loop starts from it. *)
C21_FallbackChain ==
  [][/\ (pc = "l230" /\ pc' # "l230" /\ info' = NoInfo)
        => (IF IsYouTube THEN pc' = "l287" /\ fb' = 1 ELSE pc' = "l314")
     /\ (pc = "l291" /\ pc' # "l291")
        => (/\ tried = fb
            /\ tried' = tried + 1
            /\ IF info' # NoInfo
               THEN pc' = "l319" /\ fb' = fb
               ELSE IF fb < 3
                    THEN pc' = "l287" /\ fb' = fb + 1
                    ELSE pc' = "l319")
     /\ (pc = "l314" /\ pc' # "l314")
        => (tried = 1 /\ tried' = 2 /\ pc' = "l319")
     /\ (pc = "l319" /\ pc' # "l319" /\ info # NoInfo)
        => (pc' = "l348" /\ entries' = Truncate(Normalize(info), max_videos))]_vars

(* C22: in every state in which the status reads Completed, the message is
   the summary of the job's downloaded and failed counts as they stand. *)
C22_CompletedHasSummary ==
  status = "completed" => message = Msg("done", downloaded, failed)

(* C23: every write of status, progress, total, downloaded, failed or message
   is followed by a write of updated_at before the runner takes up the next
   entry or returns: at the head of the item loop, and once run_job has
   ended, no field is newer than updated_at. *)
C23_UpdatedAtBumped ==
  (pc \in {"l348", "l92", "done"}) => ~stale

(* C24: a Completed job with at least one entry has progress 1.0, whatever
   the outcomes of its entries. *)
C24_CompletedProgressOne ==
  (status = "completed" /\ total # None /\ total[1] > 0) => FracEq(progress, One)

(* C25: a cap that was set is never exceeded: for every integer max_videos
   the request layer hands to create_job, zero and negative ones included,
   the total the runner sets is at most max(max_videos, 0). *)
C25_CapNotExceeded ==
  (max_videos # None /\ total # None) => total[1] <= Max(max_videos[1], 0)

(* C26: after cancel_job has set the signal of a Running job, downloaded
   and failed together grow by at most 1 (the entry in flight), and from the
   step in which the progress callback observes the signal downloaded does
   not grow at all. *)
C26_BoundedAfterSignal ==
  [][/\ (sigIdx' # None) => (downloaded' + failed' <= sigIdx'[2] + 1)
     /\ (\/ lastOutcome = "hook_cancel"
         \/ (cancel_event /\ pc \in {"l348", "l404", "l405", "done"}))
        => (downloaded' = downloaded)]_vars

====
